---- MODULE Spec2Model ----
(***************************************************************************)
(* Model of gst-libs/mfx/gstmfxutils_vaapi.c: the VaapiImage wrapper, a    *)
(* reference-counted VA image that is mapped and unmapped under the lock   *)
(* of its display.  The model follows one VaapiImage and its display from  *)
(* construction to destruction, with the threads that share it; the        *)
(* constructors are called while the image does not exist yet.  Every      *)
(* function is split into the steps at which another thread can observe    *)
(* it: lock, driver call, unlock, and writes to the image after unlock.    *)
(***************************************************************************)
EXTENDS Integers, Sequences, FiniteSets, TLC

\* ---------------------------------------------------------------- bounds
NumThreads == 2
MaxDim == 2
MaxRef == 1
MaxFail == 2
MaxSets == 2

Threads == 1..NumThreads

\* widths and heights passed by callers: zero, the smallest and the largest
Dims == {0, 1, MaxDim}

\* ------------------------------------------------------ program constants
NULL == 0
\* 0xffffffff, written as the 32-bit two's complement value
VA_INVALID_ID == -1
VA_STATUS_SUCCESS == 0
\* any status other than VA_STATUS_SUCCESS
VA_STATUS_ERROR == VA_STATUS_SUCCESS + 1
VA_FOURCC_NV12 == 842094158
GST_VIDEO_FORMAT_NV12 == 23
\* another format a foreign VAImage can have: 'YV12'
VA_FOURCC_YV12 == 842094169
GST_VIDEO_FORMAT_YV12 == 3
\* GstMfxTaskType
GST_MFX_TASK_INVALID == 0
GST_MFX_TASK_DECODER == 1
GST_MFX_TASK_VPP_IN == 2
GST_MFX_TASK_VPP_OUT == 4
GST_MFX_TASK_ENCODER == 8
NoDisplay == "NULL"
TheDisplay == "display"
Displays == {NoDisplay, TheDisplay}
Statuses == {VA_STATUS_SUCCESS, VA_STATUS_ERROR}

VARIABLES
    image,      \* the VaapiImage object and the state of its storage
    dpy_ref,    \* reference count of the GstMfxDisplay
    dpy_lock,   \* set of threads holding the display mutex (empty or one)
    drv_mapped, \* driver side: the image's buffer has a CPU mapping
    pc,         \* per thread: position in the function being executed
    op,         \* per thread: the public function being executed
    loc,        \* per thread: arguments and locals of the running call
    ret,        \* the call that returned in the last step, if any
    owns,       \* per thread: references to the image the thread holds
    fails,      \* number of driver failures injected so far
    hist,       \* history of calls on the image (observation only)
    repl,       \* the objects, slot and callers of vaapi_image_replace
    task        \* the GstMfxTask and its role flags

vars == <<image, dpy_ref, dpy_lock, drv_mapped, pc, op, loc, ret, owns,
          fails, hist, repl, task>>

\* ------------------------------------------------------------ data layout
\* VAImage as zero-filled by gst_mfx_mini_object_new0
ZeroVAImage ==
    [image_id |-> 0, buf |-> 0, width |-> 0, height |-> 0, fourcc |-> 0,
     num_planes |-> 0, pitches |-> <<0, 0, 0>>, offsets |-> <<0, 0, 0>>,
     data_size |-> 0]

\* struct _VaapiImage, plus the state of its storage:
\* "none" (not allocated yet), "live", "freed"
ZeroImage ==
    [state |-> "none", ref_count |-> 0, display |-> NoDisplay,
     internal_format |-> 0, image_data |-> NULL, width |-> 0, height |-> 0,
     image |-> ZeroVAImage]

\* arguments and locals of a call: status, width, height; and, for
\* observation, the display reference count at entry and the number of
\* driver calls and lock acquisitions made so far by the call
NoLoc ==
    [status |-> VA_STATUS_SUCCESS, width |-> 0, height |-> 0,
     dpy_ref0 |-> 0, ndrv |-> 0, nlock |-> 0]

NoHist ==
    [nRef |-> 0, nUnref |-> 0, nMap |-> 0, nMapOK |-> 0, foreign |-> FALSE,
     va_image |-> ZeroVAImage, view |-> << >>, unmapped |-> FALSE,
     shared |-> FALSE,
     finRuns |-> 0, finMapped |-> FALSE, finId |-> 0, finLog |-> <<>>]

NoRet == [thread |-> 0, fn |-> "none", value |-> "NONE", ndrv |-> 0, nlock |-> 0]

\* ------------------------------------------------------------ the driver
\* VAImage filled in by a successful vaCreateImage for NV12
DrvCreateImage(width, height) ==
    [image_id |-> 1, buf |-> 2,
     width |-> width, height |-> height, fourcc |-> VA_FOURCC_NV12,
     num_planes |-> 2, pitches |-> <<width, width, 0>>,
     offsets |-> <<0, width * height, 0>>,
     data_size |-> width * height
                   + 2 * ((width + 1) \div 2) * ((height + 1) \div 2)]

\* address at which the driver maps a buffer
DrvBase(buf) == 16 * buf

\* a driver call may report failure while the failure budget lasts
DrvStatus(s) ==
    /\ s \in Statuses
    /\ s # VA_STATUS_SUCCESS => fails < MaxFail
    /\ fails' = IF s = VA_STATUS_SUCCESS THEN fails ELSE fails + 1

vaapi_check_status(status) == status = VA_STATUS_SUCCESS

\* foreign VAImage descriptors handed to vaapi_image_new_with_image
ForeignImages ==
    { [DrvCreateImage(MaxDim, 1) EXCEPT !.image_id = id, !.buf = b,
                                       !.fourcc = f] :
        id \in {1, VA_INVALID_ID}, b \in {2, VA_INVALID_ID},
        f \in {VA_FOURCC_NV12, VA_FOURCC_YV12} }

\* --------------------------------------------------------------- helpers
_vaapi_image_is_mapped(img) == img.image_data # NULL

vaapi_image_get_id(img) == img.image.image_id

vaapi_image_get_format(img) == img.internal_format

vaapi_image_get_width(img) == img.width

vaapi_image_get_height(img) == img.height

vaapi_image_get_plane_count(img) == img.image.num_planes

vaapi_image_get_pitch(img, plane) ==
    IF ~(plane < img.image.num_planes) THEN 0
    ELSE img.image.pitches[plane + 1]

vaapi_image_get_data_size(img) == img.image.data_size

vaapi_image_get_offset(img, plane) ==
    IF ~(plane < img.image.num_planes) THEN 0
    ELSE img.image.offsets[plane + 1]

\* vaapi_image_get_plane without the test that the image is mapped
vaapi_image_get_plane_unmapped(img, plane) ==
    IF ~(plane < img.image.num_planes) THEN NULL
    ELSE img.image_data + img.image.offsets[plane + 1]

\* the address of plane number plane (counted from 0), or NULL when the
\* image is not mapped or has no such plane
vaapi_image_get_plane(img, plane) ==
    IF ~_vaapi_image_is_mapped(img) THEN NULL
    ELSE IF ~(plane < img.image.num_planes) THEN NULL
    ELSE img.image_data + img.image.offsets[plane + 1]

\* what a caller observes of the planes of a mapped image: the address and
\* the stride of every plane
PlaneView(img) ==
    [plane \in 0..2 |->
       [data |-> vaapi_image_get_plane(img, plane),
        pitch |-> vaapi_image_get_pitch(img, plane)]]

\* GST_MFX_DISPLAY_LOCK / GST_MFX_DISPLAY_UNLOCK: a mutex on the display.
\* Locking a null display is undefined: such a call is not followed further.
DisplayLock(t) ==
    /\ image.display # NoDisplay
    /\ dpy_lock = {}
    /\ dpy_lock' = {t}
    /\ loc' = [loc EXCEPT ![t].nlock = @ + 1]
DisplayUnlock(t) == dpy_lock' = dpy_lock \ {t}

\* a call returns to the caller: the thread is idle again
\* (fn is the public function, r its result)
Return(t, fn, r) ==
    /\ pc' = [pc EXCEPT ![t] = "idle"]
    /\ op' = [op EXCEPT ![t] = "none"]
    /\ ret' = [thread |-> t, fn |-> fn, value |-> r,
               ndrv |-> loc[t].ndrv, nlock |-> loc[t].nlock]
    /\ loc' = [loc EXCEPT ![t] = NoLoc]

\* a step inside a function: nothing is returned
Goto(t, l) == pc' = [pc EXCEPT ![t] = l] /\ ret' = NoRet

\* a public function is entered: the thread leaves idle
Call(t, o, l) ==
    /\ pc' = [pc EXCEPT ![t] = l]
    /\ op' = [op EXCEPT ![t] = o]
    /\ ret' = NoRet

\* the images that callers of vaapi_image_replace exchange, and the null
\* pointer
RObjects == {"A", "B"}
RNull == "NULL"

\* the slot (*old_image_ptr) holds image A; every thread holds a reference
\* of its own to each image
InitRepl ==
    [slot |-> "A",
     ref_count |-> [o \in RObjects |->
                      NumThreads + (IF o = "A" THEN 1 ELSE 0)],
     finalized |-> [o \in RObjects |-> 0],
     holds |-> [t \in Threads |-> RObjects],
     rpc |-> [t \in Threads |-> "idle"],
     new_image |-> [t \in Threads |-> RNull],
     old_image |-> [t \in Threads |-> RNull]]

\* the role flags and the bit masks made of them
TaskTypes ==
    {GST_MFX_TASK_DECODER, GST_MFX_TASK_VPP_IN, GST_MFX_TASK_VPP_OUT,
     GST_MFX_TASK_ENCODER}
TypeFlags == 0..15

\* bit f (a power of two) is set in mask m
HasBit(m, f) == (m \div f) % 2 = 1

\* a | b and a & b on four-bit masks
BitOr(a, b) ==
    (IF HasBit(a, 1) \/ HasBit(b, 1) THEN 1 ELSE 0)
    + (IF HasBit(a, 2) \/ HasBit(b, 2) THEN 2 ELSE 0)
    + (IF HasBit(a, 4) \/ HasBit(b, 4) THEN 4 ELSE 0)
    + (IF HasBit(a, 8) \/ HasBit(b, 8) THEN 8 ELSE 0)
BitAnd(a, b) ==
    (IF HasBit(a, 1) /\ HasBit(b, 1) THEN 1 ELSE 0)
    + (IF HasBit(a, 2) /\ HasBit(b, 2) THEN 2 ELSE 0)
    + (IF HasBit(a, 4) /\ HasBit(b, 4) THEN 4 ELSE 0)
    + (IF HasBit(a, 8) /\ HasBit(b, 8) THEN 8 ELSE 0)

\* no task yet; created and sets record the flags the task was created
\* with and the flags of the set_type_flags calls since (observation only)
NoTask ==
    [state |-> "none", task_type |-> GST_MFX_TASK_INVALID,
     created |-> 0, sets |-> << >>]

imageVars == <<image, dpy_ref, dpy_lock, drv_mapped, pc, op, loc, ret, owns,
               fails, hist>>

Init ==
    /\ image = ZeroImage
    /\ dpy_ref = 1
    /\ dpy_lock = {}
    /\ drv_mapped = FALSE
    /\ pc = [t \in Threads |-> "idle"]
    /\ op = [t \in Threads |-> "none"]
    /\ loc = [t \in Threads |-> NoLoc]
    /\ ret = NoRet
    /\ owns = [t \in Threads |-> 0]
    /\ fails = 0
    /\ hist = NoHist
    /\ repl = InitRepl
    /\ task = NoTask

\* ------------------------------------------- GstMfxMiniObject / display
\* gst_mfx_mini_object_new0: zeroed storage with one reference
gst_mfx_mini_object_new0 ==
    [ZeroImage EXCEPT !.state = "live", !.ref_count = 1]

\* gst_mfx_mini_object_ref: atomic increment
gst_mfx_mini_object_ref(img) == [img EXCEPT !.ref_count = @ + 1]

\* gst_mfx_mini_object_unref by thread t: atomic decrement; the release
\* that reaches zero runs the class finalize hook (vaapi_image_finalize)
gst_mfx_mini_object_unref(t) ==
    LET n == image.ref_count - 1 IN
    /\ image' = [image EXCEPT !.ref_count = n]
    /\ owns' = [owns EXCEPT ![t] = @ - 1]
    /\ hist' = [hist EXCEPT
                  !.nUnref = @ + 1,
                  !.finRuns = IF n = 0 THEN @ + 1 ELSE @,
                  !.finMapped = IF n = 0 THEN _vaapi_image_is_mapped(image)
                                ELSE @,
                  !.finId = IF n = 0 THEN vaapi_image_get_id(image) ELSE @]
    /\ IF n = 0
       THEN /\ Goto(t, "fin_unmap")
            /\ op' = [op EXCEPT ![t] = IF @ = "none" THEN "unref" ELSE @]
            /\ UNCHANGED loc
       ELSE Return(t, "unref", "VOID")

gst_mfx_display_ref == dpy_ref' = dpy_ref + 1
gst_mfx_display_unref == dpy_ref' = dpy_ref - 1

\* vaapi_image_new that stores the display without referencing it
vaapi_image_new_no_ref(t, display, width, height) ==
    /\ pc[t] = "idle"
    /\ image.state = "none"
    /\ IF width = 0 \/ height = 0 \/ display = NoDisplay
       THEN /\ Return(t, "new", "NULL")
            /\ UNCHANGED <<image, owns>>
       ELSE /\ image' = [gst_mfx_mini_object_new0 EXCEPT
                           !.display = display,
                           !.image.image_id = VA_INVALID_ID,
                           !.image.buf = VA_INVALID_ID]
            /\ owns' = [owns EXCEPT ![t] = 1]
            /\ Call(t, "new", "create_lock")
            /\ loc' = [loc EXCEPT ![t] =
                 [NoLoc EXCEPT !.width = width, !.height = height,
                               !.dpy_ref0 = dpy_ref]]
    /\ UNCHANGED <<dpy_ref, dpy_lock, drv_mapped, fails, hist>>
    /\ UNCHANGED <<repl, task>>

\* ------------------------------------------------------ vaapi_image_new
vaapi_image_new(t, display, width, height) ==
    /\ pc[t] = "idle"
    /\ image.state = "none"
    /\ IF width = 0 \/ height = 0 \/ display = NoDisplay
       THEN /\ Return(t, "new", "NULL")
            /\ UNCHANGED <<image, dpy_ref, owns>>
       ELSE \E allocated \in BOOLEAN :
              IF ~allocated
              THEN /\ Return(t, "new", "NULL")
                   /\ UNCHANGED <<image, dpy_ref, owns>>
              ELSE /\ image' = [gst_mfx_mini_object_new0 EXCEPT
                                  !.display = display,
                                  !.image.image_id = VA_INVALID_ID,
                                  !.image.buf = VA_INVALID_ID]
                   /\ gst_mfx_display_ref
                   /\ owns' = [owns EXCEPT ![t] = 1]
                   /\ Call(t, "new", "create_lock")
                   /\ loc' = [loc EXCEPT ![t] =
                        [NoLoc EXCEPT !.width = width, !.height = height,
                                      !.dpy_ref0 = dpy_ref]]
    /\ UNCHANGED <<dpy_lock, drv_mapped, fails, hist>>
    /\ UNCHANGED <<repl, task>>

\* vaapi_image_create: GST_MFX_DISPLAY_LOCK
create_lock(t) ==
    /\ pc[t] = "create_lock"
    /\ DisplayLock(t)
    /\ Goto(t, "create_call")
    /\ UNCHANGED <<image, dpy_ref, drv_mapped, op, owns, fails,
                   hist>>
    /\ UNCHANGED <<repl, task>>

\* vaapi_image_create: vaCreateImage writes image->image on success
create_call(t) ==
    /\ pc[t] = "create_call"
    /\ \E status \in Statuses :
         /\ DrvStatus(status)
         /\ loc' = [loc EXCEPT ![t].status = status, ![t].ndrv = @ + 1]
         /\ image' = IF status = VA_STATUS_SUCCESS
                     THEN [image EXCEPT !.image =
                             DrvCreateImage(loc[t].width, loc[t].height)]
                     ELSE image
    /\ Goto(t, "create_unlock")
    /\ UNCHANGED <<dpy_ref, dpy_lock, drv_mapped, op, owns, hist>>
    /\ UNCHANGED <<repl, task>>

\* vaapi_image_create that does not test the status of vaCreateImage
create_unlock_ignore_status(t) ==
    /\ pc[t] = "create_unlock"
    /\ DisplayUnlock(t)
    /\ image' = [image EXCEPT
                    !.internal_format = GST_VIDEO_FORMAT_NV12,
                    !.width = loc[t].width,
                    !.height = loc[t].height]
    /\ Return(t, "new", "OBJ")
    /\ UNCHANGED <<dpy_ref, drv_mapped, owns, fails, hist>>
    /\ UNCHANGED <<repl, task>>

\* vaapi_image_create: GST_MFX_DISPLAY_UNLOCK, then the status test and
\* the field assignments on the still private object; back in
\* vaapi_image_new: return the image, or goto error and unref it
create_unlock(t) ==
    /\ pc[t] = "create_unlock"
    /\ DisplayUnlock(t)
    /\ IF loc[t].status # VA_STATUS_SUCCESS
       THEN gst_mfx_mini_object_unref(t)
       ELSE /\ image' = [image EXCEPT
                           !.internal_format = GST_VIDEO_FORMAT_NV12,
                           !.width = loc[t].width,
                           !.height = loc[t].height]
            /\ Return(t, "new", "OBJ")
            /\ UNCHANGED <<owns, hist>>
    /\ UNCHANGED <<dpy_ref, drv_mapped, fails>>
    /\ UNCHANGED <<repl, task>>

\* -------------------------------------------- vaapi_image_new_with_image
_vaapi_image_set_image(img, va_image) ==
    [img EXCEPT !.internal_format = GST_VIDEO_FORMAT_NV12,
                !.image = va_image,
                !.width = va_image.width,
                !.height = va_image.height]

\* has_image is false for a null va_image pointer; display is not tested,
\* and gst_mfx_display_ref of a null display takes no reference
vaapi_image_new_with_image(t, display, has_image, va_image) ==
    /\ pc[t] = "idle"
    /\ image.state = "none"
    /\ IF \/ ~has_image
          \/ va_image.image_id = VA_INVALID_ID
          \/ va_image.buf = VA_INVALID_ID
       THEN /\ Return(t, "new_with_image", "NULL")
            /\ UNCHANGED <<image, dpy_ref, owns, hist>>
       ELSE \E allocated \in BOOLEAN :
              IF ~allocated
              THEN /\ Return(t, "new_with_image", "NULL")
                   /\ UNCHANGED <<image, dpy_ref, owns, hist>>
              ELSE /\ image' = _vaapi_image_set_image(
                                 [gst_mfx_mini_object_new0 EXCEPT
                                    !.display = display], va_image)
                   /\ IF display = NoDisplay
                      THEN UNCHANGED dpy_ref
                      ELSE gst_mfx_display_ref
                   /\ owns' = [owns EXCEPT ![t] = 1]
                   /\ hist' = [hist EXCEPT !.foreign = TRUE,
                                           !.va_image = va_image]
                   /\ Return(t, "new_with_image", "OBJ")
    /\ UNCHANGED <<dpy_lock, drv_mapped, fails>>
    /\ UNCHANGED <<repl, task>>

\* ------------------------------------------------------ vaapi_image_map
\* vaapi_image_map without the already-mapped test
vaapi_image_map_always(t) ==
    /\ pc[t] = "idle"
    /\ owns[t] > 0
    /\ Call(t, "map", "map_lock")
    /\ UNCHANGED <<image, dpy_ref, dpy_lock, drv_mapped, loc, owns, fails,
                   hist>>
    /\ UNCHANGED <<repl, task>>

\* vaapi_image_map -> _vaapi_image_map: the already-mapped test
vaapi_image_map(t) ==
    /\ pc[t] = "idle"
    /\ owns[t] > 0
    /\ IF _vaapi_image_is_mapped(image)
       THEN /\ Return(t, "map", "TRUE")
            /\ hist' = [hist EXCEPT !.shared = TRUE]
       ELSE /\ Call(t, "map", "map_lock")
            /\ UNCHANGED <<loc, hist>>
    /\ UNCHANGED <<image, dpy_ref, dpy_lock, drv_mapped, owns, fails>>
    /\ UNCHANGED <<repl, task>>

\* _vaapi_image_map without GST_MFX_DISPLAY_LOCK
map_lock_missing(t) ==
    /\ pc[t] = "map_lock"
    /\ Goto(t, "map_call")
    /\ UNCHANGED <<image, dpy_ref, dpy_lock, drv_mapped, op, loc, owns,
                   fails, hist>>
    /\ UNCHANGED <<repl, task>>

\* _vaapi_image_map: GST_MFX_DISPLAY_LOCK
map_lock(t) ==
    /\ pc[t] = "map_lock"
    /\ DisplayLock(t)
    /\ Goto(t, "map_call")
    /\ UNCHANGED <<image, dpy_ref, drv_mapped, op, owns, fails,
                   hist>>
    /\ UNCHANGED <<repl, task>>

\* vaMapBuffer(dpy, image->image.buf, &image->image_data): on success the
\* driver maps the buffer and stores the base address in image_data
map_call(t) ==
    /\ pc[t] = "map_call"
    /\ \E status \in Statuses :
         LET ok == status = VA_STATUS_SUCCESS IN
         /\ DrvStatus(status)
         /\ loc' = [loc EXCEPT ![t].status = status, ![t].ndrv = @ + 1]
         /\ drv_mapped' = IF ok THEN TRUE ELSE drv_mapped
         /\ image' = IF ok
                     THEN [image EXCEPT !.image_data = DrvBase(image.image.buf)]
                     ELSE image
         /\ hist' = [hist EXCEPT !.nMap = @ + 1,
                                 !.nMapOK = IF ok THEN @ + 1 ELSE @,
                                 !.shared = IF ok THEN FALSE ELSE @,
                                 !.view = IF ok /\ @ = << >>
                                          THEN PlaneView(image') ELSE @]
    /\ Goto(t, "map_unlock")
    /\ UNCHANGED <<dpy_ref, dpy_lock, op, owns>>
    /\ UNCHANGED <<repl, task>>

\* _vaapi_image_map that returns TRUE whatever the driver reported
map_unlock_ignore_status(t) ==
    /\ pc[t] = "map_unlock"
    /\ DisplayUnlock(t)
    /\ Return(t, "map", "TRUE")
    /\ UNCHANGED <<image, dpy_ref, drv_mapped, owns, fails, hist>>
    /\ UNCHANGED <<repl, task>>

\* GST_MFX_DISPLAY_UNLOCK, then the status test and the return
map_unlock(t) ==
    /\ pc[t] = "map_unlock"
    /\ DisplayUnlock(t)
    /\ IF ~vaapi_check_status(loc[t].status)
       THEN Return(t, "map", "FALSE")
       ELSE Return(t, "map", "TRUE")
    /\ UNCHANGED <<image, dpy_ref, drv_mapped, owns, fails, hist>>
    /\ UNCHANGED <<repl, task>>

\* ---------------------------------------------------- vaapi_image_unmap
\* _vaapi_image_unmap returns r: to the caller of vaapi_image_unmap, or
\* into vaapi_image_finalize, which ignores the result
UnmapReturn(t, r, in_finalize) ==
    IF in_finalize
    THEN /\ Goto(t, "fin_getid")
         /\ UNCHANGED <<op, loc>>
    ELSE Return(t, "unmap", r)

\* vaapi_image_unmap without the not-mapped test
vaapi_image_unmap_always(t) ==
    /\ pc[t] = "idle"
    /\ owns[t] > 0
    /\ Call(t, "unmap", "unmap_lock")
    /\ hist' = [hist EXCEPT !.nMap = 0, !.nMapOK = 0]
    /\ UNCHANGED <<image, dpy_ref, dpy_lock, drv_mapped, loc, owns, fails>>
    /\ UNCHANGED <<repl, task>>

\* vaapi_image_unmap -> _vaapi_image_unmap: the not-mapped test
vaapi_image_unmap(t) ==
    /\ pc[t] = "idle"
    /\ owns[t] > 0
    /\ IF ~_vaapi_image_is_mapped(image)
       THEN UnmapReturn(t, "TRUE", FALSE)
       ELSE /\ Call(t, "unmap", "unmap_lock")
            /\ UNCHANGED loc
    /\ hist' = [hist EXCEPT !.nMap = 0, !.nMapOK = 0]
    /\ UNCHANGED <<image, dpy_ref, dpy_lock, drv_mapped, owns, fails>>
    /\ UNCHANGED <<repl, task>>

unmap_lock(t) ==
    /\ pc[t] = "unmap_lock"
    /\ DisplayLock(t)
    /\ Goto(t, "unmap_call")
    /\ UNCHANGED <<image, dpy_ref, drv_mapped, op, owns, fails,
                   hist>>
    /\ UNCHANGED <<repl, task>>

\* vaUnmapBuffer(dpy, image->image.buf)
unmap_call(t) ==
    /\ pc[t] = "unmap_call"
    /\ \E status \in Statuses :
         /\ DrvStatus(status)
         /\ loc' = [loc EXCEPT ![t].status = status, ![t].ndrv = @ + 1]
         /\ drv_mapped' = IF status = VA_STATUS_SUCCESS THEN FALSE
                          ELSE drv_mapped
         /\ hist' = IF op[t] = "unmap" THEN hist
                    ELSE [hist EXCEPT !.finLog = Append(@,
                            [call |-> "vaUnmapBuffer", status |-> status])]
    /\ Goto(t, "unmap_unlock")
    /\ UNCHANGED <<image, dpy_ref, dpy_lock, op, owns>>
    /\ UNCHANGED <<repl, task>>

\* _vaapi_image_unmap without GST_MFX_DISPLAY_UNLOCK
unmap_unlock_missing(t) ==
    /\ pc[t] = "unmap_unlock"
    /\ Goto(t, "unmap_ret")
    /\ UNCHANGED <<image, dpy_ref, dpy_lock, drv_mapped, op, loc, owns,
                   fails, hist>>
    /\ UNCHANGED <<repl, task>>

unmap_unlock(t) ==
    /\ pc[t] = "unmap_unlock"
    /\ DisplayUnlock(t)
    /\ Goto(t, "unmap_ret")
    /\ UNCHANGED <<image, dpy_ref, drv_mapped, op, loc, owns, fails,
                   hist>>
    /\ UNCHANGED <<repl, task>>

\* _vaapi_image_unmap that clears image_data before the status test
unmap_ret_clear_first(t) ==
    /\ pc[t] = "unmap_ret"
    /\ image' = [image EXCEPT !.image_data = NULL]
    /\ IF ~vaapi_check_status(loc[t].status)
       THEN UnmapReturn(t, "FALSE", op[t] # "unmap")
       ELSE UnmapReturn(t, "TRUE", op[t] # "unmap")
    /\ UNCHANGED <<dpy_ref, dpy_lock, drv_mapped, owns, fails, hist>>
    /\ UNCHANGED <<repl, task>>

\* _vaapi_image_unmap without the status test
unmap_ret_ignore_status(t) ==
    /\ pc[t] = "unmap_ret"
    /\ image' = [image EXCEPT !.image_data = NULL]
    /\ UnmapReturn(t, "TRUE", op[t] # "unmap")
    /\ UNCHANGED <<dpy_ref, dpy_lock, drv_mapped, owns, fails, hist>>
    /\ UNCHANGED <<repl, task>>

\* _vaapi_image_unmap that also forgets the buffer on success
unmap_ret_forget_buf(t) ==
    /\ pc[t] = "unmap_ret"
    /\ IF ~vaapi_check_status(loc[t].status)
       THEN /\ UnmapReturn(t, "FALSE", op[t] # "unmap")
            /\ UNCHANGED image
       ELSE /\ image' = [image EXCEPT !.image_data = NULL,
                                      !.image.buf = VA_INVALID_ID]
            /\ UnmapReturn(t, "TRUE", op[t] # "unmap")
    /\ UNCHANGED <<dpy_ref, dpy_lock, drv_mapped, owns, fails, hist>>
    /\ UNCHANGED <<repl, task>>

\* _vaapi_image_unmap with a map count: the pointer is kept while another
\* map call still relies on the mapping
unmap_ret_counted(t) ==
    /\ pc[t] = "unmap_ret"
    /\ IF ~vaapi_check_status(loc[t].status)
       THEN /\ UnmapReturn(t, "FALSE", op[t] # "unmap")
            /\ UNCHANGED <<image, hist>>
       ELSE /\ image' = IF hist.shared THEN image
                        ELSE [image EXCEPT !.image_data = NULL]
            /\ hist' = [hist EXCEPT !.unmapped = TRUE, !.shared = FALSE]
            /\ UnmapReturn(t, "TRUE", op[t] # "unmap")
    /\ UNCHANGED <<dpy_ref, dpy_lock, drv_mapped, owns, fails>>
    /\ UNCHANGED <<repl, task>>

\* status test; only on success is image_data cleared
unmap_ret(t) ==
    /\ pc[t] = "unmap_ret"
    /\ IF ~vaapi_check_status(loc[t].status)
       THEN /\ UnmapReturn(t, "FALSE", op[t] # "unmap")
            /\ UNCHANGED <<image, hist>>
       ELSE /\ image' = [image EXCEPT !.image_data = NULL]
            /\ hist' = [hist EXCEPT !.unmapped = TRUE]
            /\ UnmapReturn(t, "TRUE", op[t] # "unmap")
    /\ UNCHANGED <<dpy_ref, dpy_lock, drv_mapped, owns, fails>>
    /\ UNCHANGED <<repl, task>>

\* ------------------------------------------------ vaapi_image_ref/unref
\* vaapi_image_ref that returns the image without taking a reference
vaapi_image_ref_borrowed(t, u) ==
    /\ pc[t] = "idle"
    /\ owns[t] > 0
    /\ hist.nRef < MaxRef
    /\ owns' = [owns EXCEPT ![u] = @ + 1]
    /\ hist' = [hist EXCEPT !.nRef = @ + 1]
    /\ Return(t, "ref", "OBJ")
    /\ UNCHANGED <<image, dpy_ref, dpy_lock, drv_mapped, fails>>
    /\ UNCHANGED <<repl, task>>

\* vaapi_image_ref: the new reference is handed to owner u
vaapi_image_ref(t, u) ==
    /\ pc[t] = "idle"
    /\ owns[t] > 0
    /\ hist.nRef < MaxRef
    /\ image' = gst_mfx_mini_object_ref(image)
    /\ owns' = [owns EXCEPT ![u] = @ + 1]
    /\ hist' = [hist EXCEPT !.nRef = @ + 1]
    /\ Return(t, "ref", "OBJ")
    /\ UNCHANGED <<dpy_ref, dpy_lock, drv_mapped, fails>>
    /\ UNCHANGED <<repl, task>>

vaapi_image_unref(t) ==
    /\ pc[t] = "idle"
    /\ owns[t] > 0
    /\ gst_mfx_mini_object_unref(t)
    /\ UNCHANGED <<dpy_ref, dpy_lock, drv_mapped, fails>>
    /\ UNCHANGED <<repl, task>>

\* ------------------------------------------------- vaapi_image_finalize
\* _vaapi_image_unmap(image) as called first by vaapi_image_finalize
fin_unmap(t) ==
    /\ pc[t] = "fin_unmap"
    /\ IF ~_vaapi_image_is_mapped(image)
       THEN UnmapReturn(t, "TRUE", TRUE)
       ELSE /\ Goto(t, "unmap_lock")
            /\ UNCHANGED <<op, loc>>
    /\ UNCHANGED <<image, dpy_ref, dpy_lock, drv_mapped, owns, fails, hist>>
    /\ UNCHANGED <<repl, task>>

\* vaapi_image_finalize without the test of the image id
fin_getid_always(t) ==
    /\ pc[t] = "fin_getid"
    /\ Goto(t, "fin_lock")
    /\ UNCHANGED <<image, dpy_ref, dpy_lock, drv_mapped, op, loc, owns,
                   fails, hist>>
    /\ UNCHANGED <<repl, task>>

\* image_id = vaapi_image_get_id(image); if (image_id != VA_INVALID_ID)
fin_getid(t) ==
    /\ pc[t] = "fin_getid"
    /\ IF vaapi_image_get_id(image) # VA_INVALID_ID
       THEN Goto(t, "fin_lock")
       ELSE Goto(t, "fin_dpy_unref")
    /\ UNCHANGED <<image, dpy_ref, dpy_lock, drv_mapped, op, loc, owns,
                   fails, hist>>
    /\ UNCHANGED <<repl, task>>

fin_lock(t) ==
    /\ pc[t] = "fin_lock"
    /\ DisplayLock(t)
    /\ Goto(t, "fin_call")
    /\ UNCHANGED <<image, dpy_ref, drv_mapped, op, owns, fails,
                   hist>>
    /\ UNCHANGED <<repl, task>>

\* vaDestroyImage(dpy, image_id)
fin_call(t) ==
    /\ pc[t] = "fin_call"
    /\ \E status \in Statuses :
         /\ DrvStatus(status)
         /\ loc' = [loc EXCEPT ![t].status = status, ![t].ndrv = @ + 1]
         /\ hist' = [hist EXCEPT !.finLog = Append(@,
                       [call |-> "vaDestroyImage", status |-> status])]
    /\ Goto(t, "fin_unlock")
    /\ UNCHANGED <<image, dpy_ref, dpy_lock, drv_mapped, op, owns>>
    /\ UNCHANGED <<repl, task>>

\* GST_MFX_DISPLAY_UNLOCK; a failed status is only logged (g_warning)
fin_unlock(t) ==
    /\ pc[t] = "fin_unlock"
    /\ DisplayUnlock(t)
    /\ Goto(t, "fin_dpy_unref")
    /\ UNCHANGED <<image, dpy_ref, drv_mapped, op, loc, owns, fails,
                   hist>>
    /\ UNCHANGED <<repl, task>>

\* vaapi_image_finalize that keeps the reference to the display
fin_dpy_unref_leak(t) ==
    /\ pc[t] = "fin_dpy_unref"
    /\ image' = [ZeroImage EXCEPT !.state = "freed"]
    /\ Return(t, op[t], IF op[t] = "unref" THEN "VOID" ELSE "NULL")
    /\ UNCHANGED <<dpy_ref, dpy_lock, drv_mapped, owns, fails, hist>>
    /\ UNCHANGED <<repl, task>>

\* gst_mfx_display_unref(image->display); finalize returns and the mini
\* object releases the storage; vaapi_image_new then returns NULL, and
\* vaapi_image_unref returns nothing
fin_dpy_unref(t) ==
    /\ pc[t] = "fin_dpy_unref"
    /\ gst_mfx_display_unref
    /\ image' = [ZeroImage EXCEPT !.state = "freed"]
    /\ hist' = [hist EXCEPT !.finLog = Append(@,
                  [call |-> "gst_mfx_display_unref",
                   status |-> VA_STATUS_SUCCESS])]
    /\ Return(t, op[t], IF op[t] = "unref" THEN "VOID" ELSE "NULL")
    /\ UNCHANGED <<dpy_lock, drv_mapped, owns, fails>>
    /\ UNCHANGED <<repl, task>>

\* -------------------------------------------------- vaapi_image_replace
\* the reference count of image o is lowered by one; at zero the image is
\* finalized
ReplUnref(r, o) ==
    [r EXCEPT !.ref_count[o] = @ - 1,
              !.finalized[o] = IF r.ref_count[o] = 1 THEN @ + 1 ELSE @]

\* vaapi_image_replace that does not reference the new image
vaapi_image_replace_no_ref(t, new_image) ==
    /\ repl.rpc[t] = "idle"
    /\ new_image \in repl.holds[t] \cup {RNull}
    /\ repl' = [repl EXCEPT !.rpc[t] = "swap", !.new_image[t] = new_image]
    /\ UNCHANGED <<imageVars, task>>

\* vaapi_image_replace(old_image_ptr, new_image) with a non-null
\* old_image_ptr, entering gst_mfx_mini_object_replace: a reference to the
\* new image is taken first, if it is not null
vaapi_image_replace(t, new_image) ==
    /\ repl.rpc[t] = "idle"
    /\ new_image \in repl.holds[t] \cup {RNull}
    /\ repl' = [repl EXCEPT
                  !.rpc[t] = "swap",
                  !.new_image[t] = new_image,
                  !.ref_count = IF new_image = RNull THEN @
                                ELSE [@ EXCEPT ![new_image] = @ + 1]]
    /\ UNCHANGED <<imageVars, task>>

\* the slot is set to the new image atomically; the image it held is kept
replace_swap(t) ==
    /\ repl.rpc[t] = "swap"
    /\ repl' = [repl EXCEPT !.rpc[t] = "unref",
                            !.old_image[t] = repl.slot,
                            !.slot = repl.new_image[t],
                            !.new_image[t] = RNull]
    /\ UNCHANGED <<imageVars, task>>

\* the reference the slot held before is released
replace_unref(t) ==
    /\ repl.rpc[t] = "unref"
    /\ LET old == repl.old_image[t]
           r == [repl EXCEPT !.rpc[t] = "idle", !.old_image[t] = RNull]
       IN repl' = IF old = RNull THEN r ELSE ReplUnref(r, old)
    /\ UNCHANGED <<imageVars, task>>

\* vaapi_image_unref by a thread on a reference of its own
replace_owner_unref(t, o) ==
    /\ repl.rpc[t] = "idle"
    /\ o \in repl.holds[t]
    /\ repl' = ReplUnref([repl EXCEPT !.holds[t] = @ \ {o}], o)
    /\ UNCHANGED <<imageVars, task>>

ReplaceStep(t) ==
    \/ \E new_image \in RObjects \cup {RNull} :
         vaapi_image_replace(t, new_image)
    \/ replace_swap(t)
    \/ replace_unref(t)
    \/ \E o \in RObjects : replace_owner_unref(t, o)

\* ------------------------------------------------------------ GstMfxTask
\* gst_mfx_task_new(context, type_flags): type_flags must not be zero, and
\* the creation of the session may fail; in both cases there is no task
gst_mfx_task_new(type_flags) ==
    /\ task.state = "none"
    /\ \E session_ok \in BOOLEAN :
         IF type_flags = 0 \/ ~session_ok
         THEN UNCHANGED task
         ELSE task' = [NoTask EXCEPT !.state = "live",
                                     !.task_type = type_flags,
                                     !.created = type_flags]
    /\ UNCHANGED <<imageVars, repl>>

\* gst_mfx_task_set_type_flags that overwrites the role flags
gst_mfx_task_set_type_flags_assign(flags) ==
    /\ task.state = "live"
    /\ Len(task.sets) < MaxSets
    /\ task' = [task EXCEPT !.task_type = flags,
                            !.sets = Append(@, flags)]
    /\ UNCHANGED <<imageVars, repl>>

\* gst_mfx_task_set_type_flags(task, flags): the flags are added
gst_mfx_task_set_type_flags(flags) ==
    /\ task.state = "live"
    /\ Len(task.sets) < MaxSets
    /\ task' = [task EXCEPT !.task_type = BitOr(@, flags),
                            !.sets = Append(@, flags)]
    /\ UNCHANGED <<imageVars, repl>>

gst_mfx_task_get_type_flags(tsk) == tsk.task_type

gst_mfx_task_has_type(tsk, flags) == BitAnd(tsk.task_type, flags) # 0

\* gst_mfx_task_unref of the last reference
gst_mfx_task_unref ==
    /\ task.state = "live"
    /\ task' = [task EXCEPT !.state = "freed",
                            !.task_type = GST_MFX_TASK_INVALID]
    /\ UNCHANGED <<imageVars, repl>>

\* ---------------------------------------------------------- the system
Step(t) ==
    \/ \E d \in Displays, w \in Dims, h \in Dims :
         vaapi_image_new(t, d, w, h)
    \/ create_lock(t)
    \/ create_call(t)
    \/ create_unlock(t)
    \/ \E has \in BOOLEAN, va \in ForeignImages :
         vaapi_image_new_with_image(t, TheDisplay, has, va)
    \/ vaapi_image_map(t)
    \/ map_lock(t)
    \/ map_call(t)
    \/ map_unlock(t)
    \/ vaapi_image_unmap(t)
    \/ unmap_lock(t)
    \/ unmap_call(t)
    \/ unmap_unlock(t)
    \/ unmap_ret(t)
    \/ \E u \in Threads : vaapi_image_ref(t, u)
    \/ vaapi_image_unref(t)
    \/ fin_unmap(t)
    \/ fin_getid(t)
    \/ fin_lock(t)
    \/ fin_call(t)
    \/ fin_unlock(t)
    \/ fin_dpy_unref(t)

\* any number of pipeline threads call into the library concurrently
Next == \E t \in Threads : Step(t)

Spec == Init /\ [][Next]_vars

\* one thread only: the sequential histories
NextSeq == Step(1)

SpecSeq == Init /\ [][NextSeq]_vars

\* one thread whose calls of vaapi_image_new_with_image may pass a null
\* display
NextArgs ==
    \/ Step(1)
    \/ \E has \in BOOLEAN, va \in ForeignImages :
         vaapi_image_new_with_image(1, NoDisplay, has, va)

SpecArgs == Init /\ [][NextArgs]_vars

\* threads that exchange and release images through one slot
NextReplace == \E t \in Threads : ReplaceStep(t)

SpecReplace == Init /\ [][NextReplace]_vars

\* the life of one task
NextTask ==
    \/ \E type_flags \in TypeFlags : gst_mfx_task_new(type_flags)
    \/ \E flags \in TypeFlags : gst_mfx_task_set_type_flags(flags)
    \/ gst_mfx_task_unref

SpecTask == Init /\ [][NextTask]_vars

\* =================================================================== claims
\* thread t enters the public function fn in this step (it either returns
\* at once or is inside the function afterwards)
Enters(t, fn) ==
    /\ pc[t] = "idle"
    /\ \/ op'[t] = fn
       \/ ret'.thread = t /\ ret'.fn = fn

\* the call that returned in this step, without driver call or lock
ReturnsAtOnce(t, fn, r) ==
    /\ ret' = [thread |-> t, fn |-> fn, value |-> r, ndrv |-> 0, nlock |-> 0]
    /\ pc'[t] = "idle"

\* C1 (as stated): k >= 1 consecutive map calls with no intervening unmap
\* issue at most one vaMapBuffer call in total.
C1_AtMostOneDriverMap == hist.nMap <= 1

\* C1 (amended): a map call made while the image is mapped returns success
\* without a driver map call and without taking the lock; consecutive map
\* calls with no intervening unmap issue at most one successful vaMapBuffer
\* call (a map that failed in the driver is retried by the next map).
C1_MapIdempotent ==
    [][/\ \A t \in Threads :
            Enters(t, "map") /\ _vaapi_image_is_mapped(image)
            => /\ ReturnsAtOnce(t, "map", "TRUE")
               /\ hist'.nMap = hist.nMap
               /\ UNCHANGED <<image, dpy_lock, drv_mapped>>
       /\ hist'.nMapOK <= 1]_vars

\* a second map call has returned success on the already mapped image
C1_Witness ==
    /\ ret.fn = "map" /\ ret.value = "TRUE" /\ ret.ndrv = 0
    /\ _vaapi_image_is_mapped(image)
    /\ hist.nMap = 1 /\ hist.nMapOK = 1

\* C2: unmap on an image that is not mapped returns success, issues no
\* driver unmap call, does not acquire the display lock and leaves the
\* image unchanged.
C2_UnmapNoop ==
    [][\A t \in Threads :
         Enters(t, "unmap") /\ ~_vaapi_image_is_mapped(image)
         => /\ ReturnsAtOnce(t, "unmap", "TRUE")
            /\ UNCHANGED <<image, dpy_ref, dpy_lock, drv_mapped>>]_vars

\* unmap has returned success on a live unmapped image without driver call
C2_Witness ==
    /\ ret.fn = "unmap" /\ ret.value = "TRUE"
    /\ ret.ndrv = 0 /\ ret.nlock = 0
    /\ image.state = "live" /\ ~_vaapi_image_is_mapped(image)

\* number of vaDestroyImage calls made by the finalize path
DestroyCalls ==
    Cardinality({k \in DOMAIN hist.finLog :
                   hist.finLog[k].call = "vaDestroyImage"})

\* C3: with N additional references taken, finalize (and the driver destroy
\* of a valid image id) runs exactly once, at release N+1; before that the
\* image is neither finalized nor destroyed; the destroyed state is entered
\* only at reference count zero and never left.
C3_State ==
    /\ hist.finRuns <= 1
    /\ hist.nUnref <= hist.nRef + 1
    /\ (hist.finRuns = 1) <=> (hist.nUnref = hist.nRef + 1)
    /\ hist.nUnref < hist.nRef + 1
         => /\ hist.finLog = <<>>
            /\ image.state # "freed"
    /\ DestroyCalls <= 1
    /\ image.state = "freed"
         => /\ hist.finRuns = 1
            /\ DestroyCalls = IF hist.finId # VA_INVALID_ID THEN 1 ELSE 0

C3_FinalizeOnce ==
    /\ []C3_State
    /\ [][/\ image.state # "freed" /\ image'.state = "freed"
             => image.ref_count = 0 /\ image.state = "live"
          /\ image.state = "freed" => image'.state = "freed"]_vars

\* an image with one additional reference has been released twice and
\* destroyed in the driver
C3_Witness ==
    /\ image.state = "freed"
    /\ hist.nRef = 1 /\ hist.nUnref = 2
    /\ DestroyCalls = 1

\* threads inside a driver call
InDriver ==
    {t \in Threads :
       pc[t] \in {"create_call", "map_call", "unmap_call", "fin_call"}}

\* C4: every driver call (vaCreateImage, vaMapBuffer, vaUnmapBuffer,
\* vaDestroyImage) is made by a thread that holds the display lock, so no
\* two driver calls on the display are in progress at the same time.
C4_DriverCallsUnderLock ==
    /\ \A t \in InDriver : dpy_lock = {t}
    /\ Cardinality(InDriver) <= 1

\* one thread is inside the driver while another waits for the lock
C4_Witness ==
    \E t, u \in Threads :
       /\ pc[t] = "map_call"
       /\ pc[u] \in {"map_lock", "unmap_lock"}

\* C5: between the calls of a sequential history on a live image, driver
\* failures included, image_data is non-null exactly when the driver holds
\* an outstanding CPU mapping of the image's buffer.
C5_MappedIffDriverMapping ==
    (\A t \in Threads : pc[t] = "idle") /\ image.state = "live"
    => (_vaapi_image_is_mapped(image) <=> drv_mapped)

\* the image is mapped, after every driver failure the driver may report
C5_Witness ==
    /\ \A t \in Threads : pc[t] = "idle"
    /\ image.state = "live"
    /\ _vaapi_image_is_mapped(image) /\ drv_mapped
    /\ fails = MaxFail

\* C6: a map on an unmapped image whose vaMapBuffer call fails returns
\* failure and leaves the image as it was, unmapped: vaapi_image_get_plane
\* returns NULL for every plane, and a map on an unmapped image always goes
\* on to a fresh vaMapBuffer call.
C6_MapFailure ==
    [][\A t \in Threads :
         /\ pc[t] = "map_unlock" /\ ~vaapi_check_status(loc[t].status)
              /\ pc'[t] # "map_unlock"
            => /\ ret' = [thread |-> t, fn |-> "map", value |-> "FALSE",
                          ndrv |-> 1, nlock |-> 1]
               /\ image' = image
               /\ ~_vaapi_image_is_mapped(image')
               /\ \A plane \in 0..2 :
                    vaapi_image_get_plane(image', plane) = NULL
         /\ Enters(t, "map") /\ ~_vaapi_image_is_mapped(image)
            => pc'[t] = "map_lock"
         /\ pc[t] = "map_lock" /\ pc'[t] # "map_lock"
            => pc'[t] = "map_call"
         /\ pc[t] = "map_call" /\ pc'[t] # "map_call"
            => /\ hist'.nMap = hist.nMap + 1
               /\ loc'[t].ndrv = 1]_vars

\* a map has succeeded with its own vaMapBuffer call after an earlier map
\* on the same unmapped image failed in the driver
C6_Witness ==
    /\ ret.fn = "map" /\ ret.value = "TRUE" /\ ret.ndrv = 1
    /\ hist.nMap = 2 /\ hist.nMapOK = 1
    /\ vaapi_image_get_plane(image, 0) # NULL

\* thread t is inside vaapi_image_unmap
InUnmap(t) ==
    /\ op[t] = "unmap"
    /\ pc[t] \in {"unmap_lock", "unmap_call", "unmap_unlock", "unmap_ret"}

\* C7: an unmap of a mapped image whose vaUnmapBuffer call fails returns
\* failure and leaves every field of the image unchanged, so it is still
\* mapped at the same address; image_data is cleared only by an unmap whose
\* driver call succeeded, which changes nothing else.
C7_UnmapFailure ==
    [][/\ \A t \in Threads :
            InUnmap(t) /\ pc'[t] # pc[t]
            => IF pc[t] # "unmap_ret" THEN image' = image
               ELSE IF ~vaapi_check_status(loc[t].status)
               THEN /\ image' = image
                    /\ _vaapi_image_is_mapped(image')
                    /\ ret' = [thread |-> t, fn |-> "unmap",
                               value |-> "FALSE", ndrv |-> 1, nlock |-> 1]
               ELSE /\ image' = [image EXCEPT !.image_data = NULL]
                    /\ ret'.fn = "unmap" /\ ret'.value = "TRUE"
       /\ /\ image.state = "live" /\ image'.state = "live"
          /\ _vaapi_image_is_mapped(image)
          /\ ~_vaapi_image_is_mapped(image')
          => \E t \in Threads :
               /\ pc[t] = "unmap_ret" /\ pc'[t] # "unmap_ret"
               /\ vaapi_check_status(loc[t].status)]_vars

\* unmap has returned failure and the image is still mapped
C7_Witness ==
    /\ ret.fn = "unmap" /\ ret.value = "FALSE" /\ ret.ndrv = 1
    /\ _vaapi_image_is_mapped(image)
    /\ image.image_data = DrvBase(image.image.buf)
    /\ drv_mapped

\* C8: vaapi_image_new with width > 0, height > 0 and a display either
\* returns NULL or returns an image whose width and height are the
\* requested ones, whose format is NV12, whose plane count is positive and
\* whose image id is valid; the returned image is never mapped.  (With
\* other arguments it returns NULL.)
C8_CreateOwnedResult ==
    [][\A t \in Threads :
         ret'.thread = t /\ ret'.fn = "new"
         => \/ ret'.value = "NULL"
            \/ /\ ret'.value = "OBJ"
               /\ loc[t].width > 0 /\ loc[t].height > 0
               /\ image'.state = "live"
               /\ image'.display = TheDisplay
               /\ vaapi_image_get_width(image') = loc[t].width
               /\ vaapi_image_get_height(image') = loc[t].height
               /\ vaapi_image_get_format(image') = GST_VIDEO_FORMAT_NV12
               /\ image'.image.fourcc = VA_FOURCC_NV12
               /\ vaapi_image_get_plane_count(image') > 0
               /\ vaapi_image_get_id(image') # VA_INVALID_ID
               /\ ~_vaapi_image_is_mapped(image')]_vars

\* vaapi_image_new has returned an image that is wider than it is high
C8_Witness ==
    /\ ret.fn = "new" /\ ret.value = "OBJ"
    /\ image.state = "live"
    /\ vaapi_image_get_width(image) = MaxDim
    /\ vaapi_image_get_height(image) = 1
    /\ vaapi_image_get_plane_count(image) = 2

\* C9: when vaCreateImage fails inside vaapi_image_new, the call returns
\* NULL after finalizing the partial image exactly once: the only call of
\* the finalizer is gst_mfx_display_unref (no vaUnmapBuffer, no
\* vaDestroyImage), the display's reference count is back at its value
\* before the call, and the display lock is not held.
C9_CreateFailureUnwinds ==
    [][\A t \in Threads :
         /\ pc[t] = "create_unlock" /\ pc'[t] # "create_unlock"
              /\ loc[t].status # VA_STATUS_SUCCESS
            => /\ pc'[t] = "fin_unmap"
               /\ hist'.finRuns = 1
               /\ image'.ref_count = 0
         /\ ret'.thread = t /\ ret'.fn = "new" /\ ret'.ndrv > 0
              /\ ret'.value = "NULL"
            => /\ loc[t].status # VA_STATUS_SUCCESS
               /\ ret'.ndrv = 1 /\ ret'.nlock = 1
               /\ hist'.finRuns = 1
               /\ hist'.finLog = << [call |-> "gst_mfx_display_unref",
                                     status |-> VA_STATUS_SUCCESS] >>
               /\ dpy_ref' = loc[t].dpy_ref0
               /\ dpy_lock' = {}
               /\ image'.state = "freed"
               /\ ~drv_mapped']_vars

\* vaapi_image_new has returned NULL after its vaCreateImage call failed
C9_Witness ==
    /\ ret.fn = "new" /\ ret.value = "NULL" /\ ret.ndrv = 1
    /\ image.state = "freed"
    /\ hist.finRuns = 1 /\ Len(hist.finLog) = 1
    /\ dpy_ref = 1 /\ dpy_lock = {}

\* the calls the finalizer has to make, in order, for the image as it was
\* when its last reference was released
FinExpected ==
    (IF hist.finMapped THEN << "vaUnmapBuffer" >> ELSE << >>)
    \o (IF hist.finId # VA_INVALID_ID THEN << "vaDestroyImage" >> ELSE << >>)
    \o << "gst_mfx_display_unref" >>

\* the calls the finalizer has made so far
FinCalls == [k \in DOMAIN hist.finLog |-> hist.finLog[k].call]

\* C10: the finalizer calls vaUnmapBuffer if and only if the image is
\* mapped, then vaDestroyImage once if and only if the image id is not
\* VA_INVALID_ID (foreign images included), then gst_mfx_display_unref
\* exactly once, whatever the driver calls report.
C10_FinalizeOrder ==
    /\ Len(FinCalls) <= Len(FinExpected)
    /\ FinCalls = SubSeq(FinExpected, 1, Len(FinCalls))
    /\ image.state = "freed"
       => /\ FinCalls = FinExpected
          /\ dpy_ref = 1
    /\ image.state # "freed" => dpy_ref = IF image.state = "live" THEN 2 ELSE 1

\* a mapped foreign image has been finalized although both vaUnmapBuffer
\* and vaDestroyImage failed
C10_Witness ==
    /\ image.state = "freed"
    /\ hist.foreign
    /\ Len(hist.finLog) = 3
    /\ hist.finLog[1].status # VA_STATUS_SUCCESS
    /\ hist.finLog[2].status # VA_STATUS_SUCCESS
    /\ FinCalls = << "vaUnmapBuffer", "vaDestroyImage",
                     "gst_mfx_display_unref" >>

\* the video format a VA fourcc stands for
FormatOfFourcc(fourcc) ==
    IF fourcc = VA_FOURCC_NV12 THEN GST_VIDEO_FORMAT_NV12
    ELSE IF fourcc = VA_FOURCC_YV12 THEN GST_VIDEO_FORMAT_YV12
    ELSE 0

\* the image returned by vaapi_image_new_with_image carries the geometry,
\* plane layout and ids of the descriptor, and no driver call was made
AdoptsDescriptor(t) ==
    /\ image'.state = "live"
    /\ image'.image = hist'.va_image
    /\ vaapi_image_get_width(image') = hist'.va_image.width
    /\ vaapi_image_get_height(image') = hist'.va_image.height
    /\ vaapi_image_get_plane_count(image') = hist'.va_image.num_planes
    /\ vaapi_image_get_id(image') = hist'.va_image.image_id
    /\ ret'.ndrv = 0 /\ ret'.nlock = 0
    /\ UNCHANGED <<dpy_lock, drv_mapped, fails>>

\* C11 (as stated): for every foreign descriptor with valid ids,
\* vaapi_image_new_with_image returns an image with the descriptor's
\* geometry, plane layout and ids, whose format is the descriptor's format,
\* without a driver call.
C11_AdoptsFormat ==
    [][\A t \in Threads :
         ret'.thread = t /\ ret'.fn = "new_with_image" /\ ret'.value = "OBJ"
         => /\ AdoptsDescriptor(t)
            /\ vaapi_image_get_format(image')
                 = FormatOfFourcc(hist'.va_image.fourcc)]_vars

\* what holds instead: geometry, layout and ids are the descriptor's, and
\* the format is NV12 whatever the descriptor says
C11_AdoptsLayoutOnly ==
    [][\A t \in Threads :
         ret'.thread = t /\ ret'.fn = "new_with_image" /\ ret'.value = "OBJ"
         => /\ AdoptsDescriptor(t)
            /\ vaapi_image_get_format(image') = GST_VIDEO_FORMAT_NV12]_vars

\* a YV12 descriptor has been adopted and the image reports NV12
C11_Witness ==
    /\ ret.fn = "new_with_image" /\ ret.value = "OBJ"
    /\ image.image.fourcc = VA_FOURCC_YV12
    /\ vaapi_image_get_format(image) = GST_VIDEO_FORMAT_NV12

\* plane numbers a caller may pass: every plane a VAImage can describe, and
\* one beyond
PlaneArgs == 0..3

\* C12: vaapi_image_get_plane(image, index) is image_data + offsets[index],
\* a non-null address, exactly when the image is mapped and index is below
\* the plane count; it is NULL for every other index and for every index
\* while the image is unmapped, so also after a successful unmap.
C12_GetPlane ==
    image.state = "live"
    => \A plane \in PlaneArgs :
         LET p == vaapi_image_get_plane(image, plane) IN
         IF _vaapi_image_is_mapped(image)
            /\ plane < vaapi_image_get_plane_count(image)
         THEN /\ p = image.image_data + vaapi_image_get_offset(image, plane)
              /\ p = DrvBase(image.image.buf) + image.image.offsets[plane + 1]
              /\ p # NULL
         ELSE p = NULL

\* a successful unmap has returned on an image with two planes, the second
\* at a non-zero offset: no plane has an address any more
C12_Witness ==
    /\ ret.fn = "unmap" /\ ret.value = "TRUE" /\ ret.ndrv = 1
    /\ image.state = "live"
    /\ vaapi_image_get_plane_count(image) = 2
    /\ vaapi_image_get_offset(image, 1) > 0
    /\ \A plane \in PlaneArgs : vaapi_image_get_plane(image, plane) = NULL

\* a constructor is called by thread t in this step
Constructs(t) ==
    /\ pc[t] = "idle" /\ image.state = "none"
    /\ \/ op'[t] = "new"
       \/ ret'.thread = t /\ ret'.fn \in {"new", "new_with_image"}

\* the constructor called in this step returns NULL and has changed nothing
Rejected(t) ==
    /\ ret'.thread = t /\ ret'.value = "NULL"
    /\ ret'.ndrv = 0 /\ ret'.nlock = 0
    /\ UNCHANGED <<image, dpy_ref, dpy_lock, drv_mapped, owns, fails, hist>>

\* C13 (as stated): a constructor called with an invalid argument
\* (vaapi_image_new: width 0, height 0 or null display;
\* vaapi_image_new_with_image: null descriptor, invalid image id, invalid
\* buffer id or null display) returns NULL without taking a display
\* reference, the lock, or making a driver call.  Stated from the result:
\* a constructor call is rejected unless all its arguments are valid.
C13_InvalidArgsRejected ==
    [][\A t \in Threads :
         Constructs(t)
         => \/ Rejected(t)
            \/ /\ image'.state = "live"
               /\ image'.display # NoDisplay
               /\ op'[t] = "new"
                  => loc'[t].width > 0 /\ loc'[t].height > 0
               /\ ret'.fn = "new_with_image"
                  => /\ hist'.va_image.image_id # VA_INVALID_ID
                     /\ hist'.va_image.buf # VA_INVALID_ID]_vars

\* what holds instead: every invalid argument but the null display of
\* vaapi_image_new_with_image is rejected
C13_RejectedButNullDisplay ==
    [][\A t \in Threads :
         Constructs(t)
         => \/ Rejected(t)
            \/ /\ image'.state = "live"
               /\ op'[t] = "new"
                  => /\ image'.display # NoDisplay
                     /\ loc'[t].width > 0 /\ loc'[t].height > 0
               /\ ret'.fn = "new_with_image"
                  => /\ hist'.va_image.image_id # VA_INVALID_ID
                     /\ hist'.va_image.buf # VA_INVALID_ID]_vars

\* vaapi_image_new_with_image has returned an image for a null display
C13_Witness ==
    /\ ret.fn = "new_with_image" /\ ret.value = "OBJ"
    /\ image.state = "live" /\ image.display = NoDisplay
    /\ dpy_ref = 1

\* thread t takes a step of vaapi_image_map or vaapi_image_unmap
MapOrUnmapStep(t) ==
    \/ Enters(t, "map")
    \/ Enters(t, "unmap")
    \/ op[t] \in {"map", "unmap"} /\ pc'[t] # pc[t]

\* everything of the image but image_data is the same before and after
SameDescriptor ==
    /\ image' = [image EXCEPT !.image_data = image'.image_data]
    /\ vaapi_image_get_id(image') = vaapi_image_get_id(image)
    /\ image'.image.buf = image.image.buf
    /\ vaapi_image_get_width(image') = vaapi_image_get_width(image)
    /\ vaapi_image_get_height(image') = vaapi_image_get_height(image)
    /\ vaapi_image_get_format(image') = vaapi_image_get_format(image)
    /\ vaapi_image_get_plane_count(image') = vaapi_image_get_plane_count(image)
    /\ vaapi_image_get_data_size(image') = vaapi_image_get_data_size(image)
    /\ \A plane \in 0..2 :
         /\ vaapi_image_get_offset(image', plane)
              = vaapi_image_get_offset(image, plane)
         /\ vaapi_image_get_pitch(image', plane)
              = vaapi_image_get_pitch(image, plane)

\* C14: no step of map or unmap, successful or failed, changes anything of
\* the image but image_data; and whenever the image is mapped, the plane
\* addresses and strides are those observed after the first successful map
\* (the driver maps the same buffer at the same base).
C14_MapUnmapFrame ==
    /\ [][\A t \in Threads : MapOrUnmapStep(t) => SameDescriptor]_vars
    /\ [](image.state = "live" /\ _vaapi_image_is_mapped(image)
          => PlaneView(image) = hist.view)

\* map; unmap; map: the second map has succeeded with a driver call of its
\* own and the planes are where the first map showed them
C14_Witness ==
    /\ ret.fn = "map" /\ ret.value = "TRUE" /\ ret.ndrv = 1
    /\ hist.nMap = 1 /\ hist.nMapOK = 1
    /\ hist.unmapped
    /\ hist.view # << >>
    /\ PlaneView(image) = hist.view
    /\ hist.view[1].data > hist.view[0].data
    /\ hist.view[0].pitch > 0


\* the display's reference count is the caller's reference plus one for
\* the image from its construction until its finalizer has run
C15_State ==
    /\ dpy_ref = 1 + (IF image.state = "live" THEN 1 ELSE 0)
    /\ image.state = "live" => image.display = TheDisplay /\ dpy_ref > 0

ROwners(o) ==
    (IF repl.slot = o THEN 1 ELSE 0)
    + Cardinality({t \in Threads : o \in repl.holds[t]})
    + Cardinality({t \in Threads :
                     repl.rpc[t] = "swap" /\ repl.new_image[t] = o})
    + Cardinality({t \in Threads :
                     repl.rpc[t] = "unref" /\ repl.old_image[t] = o})

\* under any interleaving: an image is finalized at most once and only when
\* nothing references it, and once every call has returned its count is
\* the number of its owners (the slot and the threads)
C16_State ==
    \A o \in RObjects :
       /\ repl.finalized[o] <= 1
       /\ repl.finalized[o] = 1 <=> repl.ref_count[o] = 0
       /\ repl.finalized[o] = 1
          => /\ repl.slot # o
             /\ \A t \in Threads :
                  /\ o \notin repl.holds[t]
                  /\ repl.new_image[t] # o /\ repl.old_image[t] # o
       /\ repl.ref_count[o] = ROwners(o)
       /\ (\A t \in Threads : repl.rpc[t] = "idle")
          => repl.ref_count[o]
               = (IF repl.slot = o THEN 1 ELSE 0)
                 + Cardinality({t \in Threads : o \in repl.holds[t]})

\* C16: vaapi_image_replace(slot, B) raises B's reference count by one,
\* then sets the slot to B, then lowers by one the count of the image the
\* slot held; under any interleaving of replace calls on one slot no image
\* is finalized while the slot or another owner references it, and every
\* count is the number of owners once all calls have returned.
C16_Replace ==
    /\ []C16_State
    /\ [][\A t \in Threads :
            /\ repl.rpc[t] = "idle" /\ repl'.rpc[t] = "swap"
               => /\ repl'.slot = repl.slot
                  /\ \A o \in RObjects :
                       repl'.ref_count[o] = repl.ref_count[o]
                          + (IF repl'.new_image[t] = o THEN 1 ELSE 0)
            /\ repl.rpc[t] = "swap" /\ repl'.rpc[t] = "unref"
               => /\ repl'.slot = repl.new_image[t]
                  /\ repl'.old_image[t] = repl.slot
                  /\ repl'.ref_count = repl.ref_count
            /\ repl.rpc[t] = "unref" /\ repl'.rpc[t] = "idle"
               => /\ repl'.slot = repl.slot
                  /\ \A o \in RObjects :
                       repl'.ref_count[o] = repl.ref_count[o]
                          - (IF repl.old_image[t] = o THEN 1 ELSE 0)]_vars

\* the slot held A and was set to B; A, released by every thread and by
\* the slot, has been finalized, while B is referenced by the slot and by
\* every thread
C16_Witness ==
    /\ \A t \in Threads : repl.rpc[t] = "idle" /\ repl.holds[t] = {"B"}
    /\ repl.slot = "B"
    /\ repl.finalized["A"] = 1 /\ repl.finalized["B"] = 0
    /\ repl.ref_count["B"] = NumThreads + 1


\* the role flags a task has been given: at its creation and by the
\* set_type_flags calls since
FlagsGiven ==
    {f \in TaskTypes :
       \/ HasBit(task.created, f)
       \/ \E k \in DOMAIN task.sets : HasBit(task.sets[k], f)}

\* C17: role flags accumulate: a live task has a role exactly when it was
\* created with it or a set_type_flags call has named it since (created
\* with decoder, then set vpp-in: decoder and vpp-in, not encoder), and the
\* role mask of a live task is never zero.
C17_FlagsAccumulate ==
    task.state = "live"
    => /\ gst_mfx_task_get_type_flags(task) # GST_MFX_TASK_INVALID
       /\ \A f \in TaskTypes :
            gst_mfx_task_has_type(task, f) <=> f \in FlagsGiven
       /\ task.created = GST_MFX_TASK_DECODER
            /\ task.sets = << GST_MFX_TASK_VPP_IN >>
          => /\ gst_mfx_task_has_type(task, GST_MFX_TASK_DECODER)
             /\ gst_mfx_task_has_type(task, GST_MFX_TASK_VPP_IN)
             /\ ~gst_mfx_task_has_type(task, GST_MFX_TASK_ENCODER)

\* a task created as decoder has been given the vpp-in role
C17_Witness ==
    /\ task.state = "live"
    /\ task.created = GST_MFX_TASK_DECODER
    /\ task.sets = << GST_MFX_TASK_VPP_IN >>
    /\ gst_mfx_task_get_type_flags(task)
         = GST_MFX_TASK_DECODER + GST_MFX_TASK_VPP_IN


\* C18: the mapping is a toggle without a count: however many map calls
\* have returned success since the driver mapped the buffer, one unmap
\* whose vaUnmapBuffer call succeeds releases the driver mapping and returns
\* with the image unmapped, so that vaapi_image_get_plane returns NULL to
\* every caller that still relies on the mapping.
C18_BooleanToggle ==
    /\ [](ret.fn = "unmap" /\ ret.value = "TRUE" /\ image.state = "live"
          => /\ ~_vaapi_image_is_mapped(image)
             /\ \A plane \in PlaneArgs :
                  vaapi_image_get_plane(image, plane) = NULL)
    /\ [][\A t \in Threads :
            /\ InUnmap(t) /\ pc[t] = "unmap_call" /\ pc'[t] # "unmap_call"
                 /\ loc'[t].status = VA_STATUS_SUCCESS
               => ~drv_mapped'
            /\ InUnmap(t) /\ pc[t] = "unmap_ret" /\ pc'[t] # "unmap_ret"
                 /\ vaapi_check_status(loc[t].status)
               => /\ ret'.fn = "unmap" /\ ret'.value = "TRUE"
                  /\ ret'.ndrv = 1
                  /\ ~_vaapi_image_is_mapped(image')]_vars

\* an image with two owners was mapped, a second map call returned success
\* on the mapped image, and one unmap has left it unmapped
C18_Witness ==
    /\ ret.fn = "unmap" /\ ret.value = "TRUE" /\ ret.ndrv = 1
    /\ hist.shared
    /\ hist.nRef = 1
    /\ image.state = "live"
    /\ ~_vaapi_image_is_mapped(image) /\ ~drv_mapped
    /\ vaapi_image_get_plane(image, 0) = NULL


\* the positions between GST_MFX_DISPLAY_LOCK and GST_MFX_DISPLAY_UNLOCK
LockedPcs ==
    {"create_call", "create_unlock", "map_call", "map_unlock",
     "unmap_call", "unmap_unlock", "fin_call", "fin_unlock"}

\* the positions at which a thread is about to take the lock
LockingPcs == {"create_lock", "map_lock", "unmap_lock", "fin_lock"}

\* a thread holds the display lock exactly between a lock and the unlock
\* that follows it
C19_State ==
    /\ Cardinality(dpy_lock) <= 1
    /\ \A t \in Threads :
         /\ t \in dpy_lock <=> pc[t] \in LockedPcs
         /\ pc[t] = "idle" => t \notin dpy_lock
         /\ pc[t] \in LockingPcs => t \notin dpy_lock

\* C19: on every path of vaapi_image_new, map, unmap and the finalizer the
\* display lock is released before the function returns and before it is
\* taken again: no call returns holding it, none takes it while holding it,
\* each driver call is made under one acquisition of its own, and the
\* finalizer of a mapped image with a valid id takes it twice in a row.
C19_LockBalanced ==
    /\ []C19_State
    /\ [][\A t \in Threads :
            /\ ret'.thread = t
               => /\ t \notin dpy_lock'
                  /\ ret'.nlock = ret'.ndrv
            /\ pc[t] \in LockingPcs /\ pc'[t] # pc[t]
               => /\ dpy_lock = {} /\ dpy_lock' = {t}
                  /\ pc'[t] \in LockedPcs
            /\ ret'.thread = t /\ ret'.fn = "unref" /\ image'.state = "freed"
               => ret'.nlock = (IF hist.finMapped THEN 1 ELSE 0)
                      + (IF hist.finId # VA_INVALID_ID THEN 1 ELSE 0)]_vars

\* the finalizer of a mapped image has returned after taking the lock for
\* vaUnmapBuffer and again for vaDestroyImage, while another thread ran
C19_Witness ==
    /\ ret.fn = "unref" /\ ret.nlock = 2 /\ ret.ndrv = 2
    /\ image.state = "freed"
    /\ hist.finMapped
    /\ hist.nRef = 1
    /\ dpy_lock = {}


\* the image has been mapped by callers only: the driver has not failed and
\* no unmap has been called since the image was first mapped
OnlyMaps ==
    /\ image.state = "live"
    /\ fails = 0
    /\ ~hist.unmapped
    /\ \A t \in Threads : op[t] # "unmap" /\ pc[t] \notin {"fin_unmap"}
    /\ hist.finRuns = 0

====
